---- MODULE Spec2Model ----
(***************************************************************************)
(* A model of webspider.py: the four fetch-based functions                 *)
(* (scrape_website, extract_keywords, check_robots_txt,                    *)
(* detect_web_technologies), filter_by_date, save_to_csv and the           *)
(* __main__ driver that runs them in sequence.                             *)
(*                                                                         *)
(* Python str values are sequences of one-character strings, so that       *)
(* strip, startswith, partition, split, splitlines and strptime are        *)
(* computed character by character.  None is the one-element sequence      *)
(* <<"None">>, which is no str since "None" is no single character.        *)
(* A Python dict is the sequence of its <<key, value>> items in insertion  *)
(* order, with pairwise distinct keys.                                     *)
(***************************************************************************)
EXTENDS Integers, Sequences, FiniteSets, TLC

VARIABLES
    pc,             \* position of the __main__ driver, "lib" when a function is called directly
    today,          \* datetime.date.today(), as <<year, month, day>>
    op,             \* the function whose call completed last
    args,           \* the inputs of that call
    ret,            \* what it returned
    raised,         \* the exception it let escape to its caller, "none" if it returned
    fs,             \* the file at the CSV path: NoFile or the rows written
    requested,      \* the URL of the last requests.get
    scraped_data,   \* driver locals
    filtered_data,
    keywords,
    robots_rules,
    technologies

vars == <<pc, today, op, args, ret, raised, fs, requested,
          scraped_data, filtered_data, keywords, robots_rules, technologies>>

None == <<"None">>

\* F applied to the value of a.  TLC evaluates an operator's argument again
\* at each use of the parameter when it evaluates ENABLED; Bind evaluates it
\* once.
Bind(a, F(_)) == CHOOSE r \in {F(v) : v \in {a}} : TRUE

----------------------------------------------------------------------------
(* str methods *)

Whitespace == {" ", "\t", "\n", "\r"}

Digits == {"0", "1", "2", "3", "4", "5", "6", "7", "8", "9"}

DigitVal(c) ==
    CASE c = "0" -> 0 [] c = "1" -> 1 [] c = "2" -> 2 [] c = "3" -> 3
      [] c = "4" -> 4 [] c = "5" -> 5 [] c = "6" -> 6 [] c = "7" -> 7
      [] c = "8" -> 8 [] c = "9" -> 9

RECURSIVE lstrip(_)
lstrip(str) ==
    Bind(str, LAMBDA s :
        IF s # <<>> /\ Head(s) \in Whitespace THEN lstrip(Tail(s)) ELSE s)

RECURSIVE rstrip(_)
rstrip(str) ==
    Bind(str, LAMBDA s :
        IF s # <<>> /\ s[Len(s)] \in Whitespace
        THEN rstrip(SubSeq(s, 1, Len(s) - 1))
        ELSE s)

\* str.strip()
strip(s) == rstrip(lstrip(s))

\* str.rstrip(chars) for a one-character chars
RECURSIVE rstrip_char(_, _)
rstrip_char(str, c) ==
    Bind(str, LAMBDA s :
        IF s # <<>> /\ s[Len(s)] = c
        THEN rstrip_char(SubSeq(s, 1, Len(s) - 1), c)
        ELSE s)

\* str.startswith(prefix)
startswith(s, prefix) ==
    /\ Len(s) >= Len(prefix)
    /\ SubSeq(s, 1, Len(prefix)) = prefix

\* index of the first c in s, 0 when there is none
find_char(s, c) ==
    IF \A i \in 1..Len(s) : s[i] # c THEN 0
    ELSE CHOOSE i \in 1..Len(s) : s[i] = c /\ \A j \in 1..(i - 1) : s[j] # c

\* str.partition(sep) for a one-character sep: <<before, sep, after>>,
\* and <<s, "", "">> when sep does not occur
partition(s, sep) ==
    Bind(find_char(s, sep), LAMBDA i :
        IF i = 0 THEN <<s, <<>>, <<>>>>
        ELSE <<SubSeq(s, 1, i - 1), <<sep>>, SubSeq(s, i + 1, Len(s))>>)

\* str.split(sep) for a one-character sep: always at least one segment
RECURSIVE split(_, _)
split(str, sep) ==
    Bind(str, LAMBDA s : Bind(find_char(s, sep), LAMBDA i :
        IF i = 0 THEN <<s>>
        ELSE <<SubSeq(s, 1, i - 1)>> \o split(SubSeq(s, i + 1, Len(s)), sep)))

\* str.splitlines(): lines end at "\n", "\r" or "\r\n"; the line ends are
\* dropped and a final line end opens no further line
RECURSIVE splitlines(_)
splitlines(str) ==
    Bind(str, LAMBDA s :
        IF s = <<>> THEN <<>>
        ELSE Bind(find_char(s, "\n"), LAMBDA n : Bind(find_char(s, "\r"), LAMBDA r :
             Bind(IF n = 0 THEN r ELSE IF r = 0 THEN n ELSE IF n < r THEN n ELSE r,
                  LAMBDA i :
                 IF i = 0 THEN <<s>>
                 ELSE <<SubSeq(s, 1, i - 1)>>
                      \o splitlines(SubSeq(s,
                                           IF s[i] = "\r" /\ i < Len(s) /\ s[i + 1] = "\n"
                                           THEN i + 2 ELSE i + 1,
                                           Len(s)))))))

----------------------------------------------------------------------------
(* dict methods, on sequences of <<key, value>> items *)

keys(d) == [i \in 1..Len(d) |-> d[i][1]]

KeySet(d) == {d[i][1] : i \in 1..Len(d)}

has_key(d, k) == \E i \in 1..Len(d) : d[i][1] = k

\* d[k], for a key that is present
getitem(d, k) == d[CHOOSE i \in 1..Len(d) : d[i][1] = k][2]

\* d.get(k, default)
get(d, k, default) == IF has_key(d, k) THEN getitem(d, k) ELSE default

\* d[k] = v: a new key goes last, a present key keeps its place
setitem(dict, key, v) ==
    Bind(dict, LAMBDA d : Bind(key, LAMBDA k :
        IF has_key(d, k)
        THEN [i \in 1..Len(d) |-> IF d[i][1] = k THEN <<k, v>> ELSE d[i]]
        ELSE Append(d, <<k, v>>)))

----------------------------------------------------------------------------
(* datetime: dates are <<year, month, day>> *)

date_gt(a, b) ==
    \/ a[1] > b[1]
    \/ a[1] = b[1] /\ a[2] > b[2]
    \/ a[1] = b[1] /\ a[2] = b[2] /\ a[3] > b[3]

\* item_date >= date_threshold
date_ge(a, b) ==
    \/ a[1] > b[1]
    \/ a[1] = b[1] /\ a[2] > b[2]
    \/ a[1] = b[1] /\ a[2] = b[2] /\ a[3] >= b[3]

is_leap(y) == y % 4 = 0 /\ (y % 100 # 0 \/ y % 400 = 0)

days_in_month(y, m) ==
    IF m = 2 THEN (IF is_leap(y) THEN 29 ELSE 28)
    ELSE IF m \in {4, 6, 9, 11} THEN 30
    ELSE 31

\* The format as strptime reads it: a run of whitespace is one "ws" token,
\* "%" takes the next character as its directive, any other character is a
\* literal.  A "%" that ends the format is the directive "stray".
RECURSIVE format_tokens(_)
format_tokens(format) ==
    Bind(format, LAMBDA fmt :
        IF fmt = <<>> THEN <<>>
        ELSE IF Head(fmt) \in Whitespace
        THEN <<[kind |-> "ws", ch |-> " "]>> \o format_tokens(lstrip(fmt))
        ELSE IF Head(fmt) = "%"
        THEN IF Len(fmt) = 1
             THEN <<[kind |-> "dir", ch |-> "stray"]>>
             ELSE <<[kind |-> "dir", ch |-> fmt[2]]>>
                  \o format_tokens(SubSeq(fmt, 3, Len(fmt)))
        ELSE <<[kind |-> "lit", ch |-> Head(fmt)]>> \o format_tokens(Tail(fmt)))

\* the directives this model gives a pattern to; every other one is a bad
\* directive to strptime here
Directives == {"Y", "m", "d"}

is_digit(s, i) == i <= Len(s) /\ s[i] \in Digits

in_at(s, i, S) == i <= Len(s) /\ s[i] \in S

num2(s, i) == 10 * DigitVal(s[i]) + DigitVal(s[i + 1])

RECURSIVE ws_run(_, _)
ws_run(s, i) == IF in_at(s, i, Whitespace) THEN 1 + ws_run(s, i + 1) ELSE 0

\* The alternatives of one token's pattern that match s at i, in the order
\* the regular expression tries them, each with its length and its value.
\*   %Y  \d\d\d\d
\*   %m  1[0-2]|0[1-9]|[1-9]
\*   %d  3[0-1]|[1-2]\d|0[1-9]|[1-9]| [1-9]
\*   whitespace in the format  \s+  (greedy)
alternatives(tok, s, i) ==
    LET alt(ok, n, v) == [ok |-> ok, len |-> n, val |-> v]
        d19 == Digits \ {"0"}
        all ==
          IF tok.kind = "lit"
          THEN <<alt(in_at(s, i, {tok.ch}), 1, 0)>>
          ELSE IF tok.kind = "ws"
          THEN [j \in 1..ws_run(s, i) |-> alt(TRUE, ws_run(s, i) + 1 - j, 0)]
          ELSE IF tok.ch = "Y"
          THEN LET ok == \A j \in 0..3 : is_digit(s, i + j) IN
               <<alt(ok, 4, IF ok THEN 100 * num2(s, i) + num2(s, i + 2) ELSE 0)>>
          ELSE IF tok.ch = "m"
          THEN LET a == in_at(s, i, {"1"}) /\ in_at(s, i + 1, {"0", "1", "2"})
                   b == in_at(s, i, {"0"}) /\ in_at(s, i + 1, d19)
                   c == in_at(s, i, d19)
               IN <<alt(a, 2, IF a THEN num2(s, i) ELSE 0),
                    alt(b, 2, IF b THEN num2(s, i) ELSE 0),
                    alt(c, 1, IF c THEN DigitVal(s[i]) ELSE 0)>>
          ELSE LET a == in_at(s, i, {"3"}) /\ in_at(s, i + 1, {"0", "1"})
                   b == in_at(s, i, {"1", "2"}) /\ is_digit(s, i + 1)
                   c == in_at(s, i, {"0"}) /\ in_at(s, i + 1, d19)
                   e == in_at(s, i, d19)
                   f == in_at(s, i, {" "}) /\ in_at(s, i + 1, d19)
               IN <<alt(a, 2, IF a THEN num2(s, i) ELSE 0),
                    alt(b, 2, IF b THEN num2(s, i) ELSE 0),
                    alt(c, 2, IF c THEN num2(s, i) ELSE 0),
                    alt(e, 1, IF e THEN DigitVal(s[i]) ELSE 0),
                    alt(f, 2, IF f THEN DigitVal(s[i + 1]) ELSE 0)>>
    IN SelectSeq(all, LAMBDA x : x.ok)

\* format_regex.match(data_string): the first match of the tokens from k on
\* at position i, the alternatives of a token being tried in order and given
\* up when the rest of the pattern does not match after them.  end is the
\* index of the last character matched; Y, m, d are the groups (-1: no such
\* group).
RECURSIVE re_match(_, _, _, _)
RECURSIVE first_match(_, _, _, _, _, _)
RECURSIVE match_rest(_, _, _, _, _, _, _)
re_match(s, pos, toks, k) ==
    Bind(pos, LAMBDA i :
        IF k > Len(toks)
        THEN [ok |-> TRUE, end |-> i - 1, Y |-> -1, m |-> -1, d |-> -1]
        ELSE Bind(alternatives(toks[k], s, i), LAMBDA alts :
                first_match(s, i, toks, k, alts, 1)))

first_match(s, i, toks, k, alts, j) ==
    IF j > Len(alts)
    THEN [ok |-> FALSE, end |-> 0, Y |-> -1, m |-> -1, d |-> -1]
    ELSE Bind(re_match(s, i + alts[j].len, toks, k + 1), LAMBDA r :
            match_rest(r, s, i, toks, k, alts, j))

\* r: the match of the rest of the pattern after alternative j
match_rest(r, s, i, toks, k, alts, j) ==
    IF r.ok
    THEN IF toks[k].kind # "dir" THEN r
         ELSE IF toks[k].ch = "Y" THEN [r EXCEPT !.Y = alts[j].val]
         ELSE IF toks[k].ch = "m" THEN [r EXCEPT !.m = alts[j].val]
         ELSE [r EXCEPT !.d = alts[j].val]
    ELSE first_match(s, i, toks, k, alts, j + 1)

\* datetime_date(year, month, day): ValueError for a date that does not exist
make_date(year, month, day) ==
    IF year < 1 \/ day > days_in_month(year, month)
    THEN [exc |-> "ValueError", date |-> <<0, 0, 0>>]
    ELSE [exc |-> "none", date |-> <<year, month, day>>]

\* the date of a match: ValueError when the pattern did not match or did not
\* use up the string; a field the format does not name is 1900, 1, 1
date_of_match(found, length) ==
    IF ~found.ok \/ found.end # length
    THEN [exc |-> "ValueError", date |-> <<0, 0, 0>>]
    ELSE make_date(IF found.Y = -1 THEN 1900 ELSE found.Y,
                   IF found.m = -1 THEN 1 ELSE found.m,
                   IF found.d = -1 THEN 1 ELSE found.d)

\* strptime on the tokens of the format.  ValueError: a bad or stray
\* directive.  re.error: the format names a directive twice, so its pattern
\* defines a group twice and does not compile.
strptime_tokens(data_string, toks) ==
    IF \E k \in 1..Len(toks) : toks[k].kind = "dir" /\ toks[k].ch \notin Directives
    THEN [exc |-> "ValueError", date |-> <<0, 0, 0>>]
    ELSE IF \E k, l \in 1..Len(toks) :
                k # l /\ toks[k].kind = "dir" /\ toks[l].kind = "dir"
                      /\ toks[k].ch = toks[l].ch
    THEN [exc |-> "re.error", date |-> <<0, 0, 0>>]
    ELSE Bind(re_match(data_string, 1, toks, 1), LAMBDA found :
            date_of_match(found, Len(data_string)))

\* datetime.datetime.strptime(data_string, format).date(): the date, or the
\* exception strptime raises
strptime(data_string, format) ==
    Bind(data_string, LAMBDA s : Bind(format_tokens(format), LAMBDA toks :
        strptime_tokens(s, toks)))

----------------------------------------------------------------------------
(* requests and BeautifulSoup, as the functions see them *)

\* What requests.get(url) gives: exc is the RequestException it raised
\* ("none": a response came back); a response has a status code, headers,
\* the body text, and soup, the body as BeautifulSoup(text, 'html.parser')
\* presents it: elements maps a selector to the text of the first element it
\* selects (a selector not in it selects nothing), meta is the
\* <meta name="keywords"> tag (found or not, with its content attribute or
\* None).
NoSoup == [elements |-> <<>>, meta |-> [found |-> FALSE, content |-> None]]

TransportFailure ==
    [exc |-> "ConnectionError", status_code |-> 0, headers |-> <<>>,
     text |-> <<>>, soup |-> NoSoup]

Response(status, headers, text, soup) ==
    [exc |-> "none", status_code |-> status, headers |-> headers,
     text |-> text, soup |-> soup]

\* response.raise_for_status(): HTTPError, a RequestException, for 4xx and 5xx
raise_for_status(response) ==
    IF response.status_code >= 400 /\ response.status_code < 600
    THEN "HTTPError" ELSE "none"

\* selectors soup.select_one rejects with a SelectorSyntaxError
InvalidSelectors == {"a["}

\* soup.select_one(selector): the element's text, None, or the exception
select_one(soup, selector) ==
    IF selector \in InvalidSelectors
    THEN [exc |-> "SelectorSyntaxError", element |-> None]
    ELSE [exc |-> "none", element |-> get(soup.elements, selector, None)]

----------------------------------------------------------------------------
(* scrape_website *)

\* the loop of lines 25-28, from item i on: the record built, or the
\* exception select_one raised
extract_skip_missing(soup, target_elements) ==
    LET RECURSIVE loop(_, _)
        loop(i, extracted_data) ==
            IF i > Len(target_elements) THEN extracted_data
            ELSE LET element == select_one(soup, target_elements[i][2]).element IN
                 loop(i + 1,
                      IF element = None THEN extracted_data
                      ELSE setitem(extracted_data, target_elements[i][1],
                                   strip(element)))
    IN [exc |-> "none", data |-> loop(1, <<>>)]

extract_fields(soup, target_elements) ==
    LET RECURSIVE loop(_, _)
        loop(i, extracted_data) ==
            IF i > Len(target_elements)
            THEN [exc |-> "none", data |-> extracted_data]
            ELSE LET key == target_elements[i][1]
                     sel == select_one(soup, target_elements[i][2])
                 IN IF sel.exc # "none"
                    THEN [exc |-> sel.exc, data |-> <<>>]
                    ELSE loop(i + 1,
                              setitem(extracted_data, key,
                                      IF sel.element # None
                                      THEN strip(sel.element)
                                      ELSE None))
    IN loop(1, <<>>)

scrape_website(response, target_elements) ==
    IF response.exc # "none"
    THEN [ret |-> <<>>, raised |-> "none"]          \* except RequestException
    ELSE IF raise_for_status(response) # "none"
    THEN [ret |-> <<>>, raised |-> "none"]          \* HTTPError, the same clause
    ELSE Bind(extract_fields(response.soup, target_elements), LAMBDA e :
            IF e.exc # "none"
            THEN [ret |-> <<>>, raised |-> "none"]  \* except Exception
            ELSE [ret |-> e.data, raised |-> "none"])

----------------------------------------------------------------------------
(* extract_keywords *)

\* the truth value of an optional str: None and "" are false
truthy(v) == v # None /\ v # <<>>

split_drop_empty(content) ==
    SelectSeq([i \in 1..Len(split(content, ",")) |-> strip(split(content, ",")[i])],
              LAMBDA k : k # <<>>)

\* [keyword.strip() for keyword in content.split(",")]
split_keywords(content) ==
    Bind(split(content, ","), LAMBDA parts :
        [i \in 1..Len(parts) |-> strip(parts[i])])

extract_keywords(response) ==
    IF response.exc # "none"
    THEN [ret |-> <<>>, raised |-> "none"]
    ELSE IF raise_for_status(response) # "none"
    THEN [ret |-> <<>>, raised |-> "none"]
    ELSE LET keywords_meta == response.soup.meta IN
         IF keywords_meta.found /\ truthy(keywords_meta.content)
         THEN [ret |-> split_keywords(keywords_meta.content), raised |-> "none"]
         ELSE [ret |-> <<>>, raised |-> "none"]

----------------------------------------------------------------------------
(* check_robots_txt *)

S_robots_txt == <<"/", "r", "o", "b", "o", "t", "s", ".", "t", "x", "t">>
S_User_agent == <<"U", "s", "e", "r", "-", "a", "g", "e", "n", "t">>
S_Disallow == <<"D", "i", "s", "a", "l", "l", "o", "w">>
S_Allow == <<"A", "l", "l", "o", "w">>

strip_one_slash(url) ==
    (IF url # <<>> /\ url[Len(url)] = "/" THEN SubSeq(url, 1, Len(url) - 1) ELSE url)
        \o S_robots_txt

\* f"{url.rstrip('/')}/robots.txt"
robots_url(url) == rstrip_char(url, "/") \o S_robots_txt

\* the test of line 81, on the stripped line
is_rule_line(line) ==
    \/ startswith(line, S_User_agent)
    \/ startswith(line, S_Disallow)
    \/ startswith(line, S_Allow)

setdefault_overwrite(rules, key, value) == setitem(rules, key, <<value>>)

\* rules.setdefault(key, []).append(value)
setdefault_append(rules, key, value) ==
    setitem(rules, key, Append(get(rules, key, <<>>), value))

\* the loop of lines 79-83 over the lines from i on
RECURSIVE parse_rules(_, _, _)
parse_rules(lines, i, rules) ==
    IF i > Len(lines) THEN rules
    ELSE Bind(strip(lines[i]), LAMBDA line : Bind(partition(line, ":"), LAMBDA p :
            parse_rules(lines, i + 1,
                        IF is_rule_line(line)
                        THEN setdefault_append(rules, strip(p[1]), strip(p[3]))
                        ELSE rules)))

check_robots_txt(response) ==
    IF response.exc # "none"
    THEN [ret |-> <<>>, raised |-> "none"]
    ELSE IF response.status_code = 200
    THEN Bind(splitlines(response.text), LAMBDA lines :
            [ret |-> parse_rules(lines, 1, <<>>), raised |-> "none"])
    ELSE [ret |-> <<>>, raised |-> "none"]

----------------------------------------------------------------------------
(* detect_web_technologies *)

detect_web_technologies(response) ==
    IF response.exc # "none"
    THEN [ret |-> <<>>, raised |-> "none"]
    ELSE LET headers == response.headers
             t1 == IF has_key(headers, "X-Powered-By")
                   THEN <<getitem(headers, "X-Powered-By")>> ELSE <<>>
             t2 == IF has_key(headers, "Server")
                   THEN <<getitem(headers, "Server")>> ELSE <<>>
         IN [ret |-> t1 \o t2, raised |-> "none"]

----------------------------------------------------------------------------
(* filter_by_date *)

\* a date_threshold of None is <<>> here, a date being three integers
effective_threshold(date_threshold, clock) ==
    IF Len(date_threshold) = 0 THEN clock ELSE date_threshold

\* what the try statement makes of the parse p of an item's date with only
\* KeyError caught
date_outcome_uncaught(p, threshold) ==
    IF p.exc # "none" THEN p.exc
    ELSE IF date_ge(p.date, threshold) THEN "keep"
    ELSE "skip"

\* what the try statement, lines 140-145, makes of the parse p of an item's
\* date: "keep" (appended), "skip" (below the threshold, or a ValueError or
\* KeyError caught), or the exception that escapes the except clause
date_outcome(p, threshold) ==
    IF p.exc \in {"ValueError", "KeyError"} THEN "skip"
    ELSE IF p.exc # "none" THEN p.exc
    ELSE IF date_ge(p.date, threshold) THEN "keep"
    ELSE "skip"

\* the body of the loop, lines 135-145, for one item
filter_item(item, date_key, date_format, threshold) ==
    IF ~truthy(get(item, date_key, None)) THEN "skip"
    ELSE Bind(strptime(getitem(item, date_key), date_format), LAMBDA p :
            date_outcome(p, threshold))

RECURSIVE filter_loop(_, _, _, _, _, _)
RECURSIVE filter_step(_, _, _, _, _, _, _)
filter_loop(data, i, date_key, date_format, threshold, filtered) ==
    IF i > Len(data) THEN [ret |-> filtered, raised |-> "none"]
    ELSE Bind(filter_item(data[i], date_key, date_format, threshold), LAMBDA r :
            filter_step(r, data, i, date_key, date_format, threshold, filtered))

\* r: what the body of the loop made of item i
filter_step(r, data, i, date_key, date_format, threshold, filtered) ==
    IF r = "keep"
    THEN filter_loop(data, i + 1, date_key, date_format, threshold,
                     Append(filtered, data[i]))
    ELSE IF r = "skip"
    THEN filter_loop(data, i + 1, date_key, date_format, threshold, filtered)
    ELSE [ret |-> <<>>, raised |-> r]

filter_by_date(data, date_key, date_format, date_threshold, clock) ==
    Bind(effective_threshold(date_threshold, clock), LAMBDA threshold :
        filter_loop(data, 1, date_key, date_format, threshold, <<>>))

----------------------------------------------------------------------------
(* save_to_csv *)

NoFile == [exists |-> FALSE, rows |-> <<>>]

\* what csv.writer puts in a cell: None is written as the empty string
cell(v) == IF v = None THEN <<>> ELSE v

\* DictWriter._dict_to_list: the row's cells in fieldnames order, a missing
\* field being restval, the empty string
dict_to_list(rowdict, fieldnames) ==
    [j \in 1..Len(fieldnames) |-> cell(get(rowdict, fieldnames[j], <<>>))]

\* writer.writerows(data) from row i on: a row with a field that is not in
\* fieldnames raises ValueError (extrasaction='raise'), the rows before it
\* being written already
RECURSIVE writerows(_, _, _, _)
writerows(data, i, fieldnames, rows) ==
    IF i > Len(data) THEN [raised |-> "none", rows |-> rows]
    ELSE IF \E k \in KeySet(data[i]) : \A j \in 1..Len(fieldnames) : fieldnames[j] # k
    THEN [raised |-> "ValueError", rows |-> rows]
    ELSE writerows(data, i + 1, fieldnames,
                   Append(rows, dict_to_list(data[i], fieldnames)))

\* the file opened for writing before data is looked at
save_to_csv_open_first(data, file) ==
    IF data = <<>>
    THEN [raised |-> "none", fs |-> [exists |-> TRUE, rows |-> <<>>]]
    ELSE Bind(keys(data[1]), LAMBDA fieldnames :
            Bind(writerows(data, 1, fieldnames, <<fieldnames>>), LAMBDA w :
                [raised |-> w.raised, fs |-> [exists |-> TRUE, rows |-> w.rows]]))

\* The file holds the rows as csv.reader reads them back: the header, then
\* one list of cells per row written.  open(filename, "w") truncates.
save_to_csv(data, file) ==
    IF data = <<>>
    THEN [raised |-> "none", fs |-> file]
    ELSE Bind(keys(data[1]), LAMBDA fieldnames :
            Bind(writerows(data, 1, fieldnames, <<fieldnames>>), LAMBDA w :
                [raised |-> w.raised, fs |-> [exists |-> TRUE, rows |-> w.rows]]))

----------------------------------------------------------------------------
(* the inputs drawn *)

MaxFilterRecords == 2
MaxCsvRecords == 2
MaxLines == 2

\* the sequences over S of length at most n
SeqsUpTo(S, n) == UNION {[1..k -> S] : k \in 0..n}

\* values of a record's date field
DateTexts ==
    {<<"2", "0", "2", "4", "-", "0", "3", "-", "1", "0">>,
     <<"2", "0", "2", "4", "-", "0", "3", "-", "0", "9">>,
     <<"2", "0", "2", "4", "-", "0", "3", "-", "1", "1">>,
     <<"2", "0", "2", "4", "-", "3", "-", "9">>,
     <<" ", "2", "0", "2", "4", "-", "0", "3", "-", "1", "0">>,
     <<"2", "0", "2", "3", "-", "0", "2", "-", "2", "9">>,
     <<"1", "0", "/", "0", "3", "/", "2", "0", "2", "4">>,
     <<"0", "3", "1", "0">>,
     <<"s", "o", "o", "n">>}

FilterRecords ==
    {<<>>, <<<<"title", <<"t">>>>>>, <<<<"date", None>>>>, <<<<"date", <<>>>>>>}
        \cup {<<<<"date", s>>>> : s \in DateTexts}

DateKeys == {"date", "published"}

DateFormats ==
    {<<"%", "Y", "-", "%", "m", "-", "%", "d">>,
     <<"%", "d", "/", "%", "m", "/", "%", "Y">>,
     <<"%", "m", "%", "d">>,
     <<"%", "d", "%", "d">>,
     <<"%", "Y", "-", "%", "Q">>}

Dates == {<<2024, 3, 10>>, <<2024, 3, 11>>}

Thresholds == {<<>>} \cup Dates

S_a == <<"a">>
S_1 == <<"1">>
S_2 == <<"2">>
S_3 == <<"3">>

CsvRecords ==
    {<<>>,
     <<<<"a", S_1>>>>,
     <<<<"a", S_3>>>>,
     <<<<"b", S_2>>>>,
     <<<<"a", None>>>>,
     <<<<"a", S_1>>, <<"b", S_2>>>>,
     <<<<"b", S_2>>, <<"a", S_1>>>>,
     <<<<"a", S_3>>, <<"b", None>>>>}

SiteUrls ==
    {<<"h", "t", "t", "p", ":", "/", "/", "h">>,
     <<"h", "t", "t", "p", ":", "/", "/", "h", "/">>,
     <<"h", "t", "t", "p", ":", "/", "/", "h", "/", "/">>,
     <<"h", "t", "t", "p", ":", "/", "/", "h", "/", "p", "/">>}

\* lines of a robots.txt
RobotsLines ==
    {<<"U", "s", "e", "r", "-", "a", "g", "e", "n", "t", ":", " ", "*">>,
     <<"D", "i", "s", "a", "l", "l", "o", "w", ":", " ", "/", "a", "d", "m", "i", "n">>,
     <<"D", "i", "s", "a", "l", "l", "o", "w", ":", " ", "/", "t", "m", "p">>,
     <<" ", " ", "A", "l", "l", "o", "w", " ", ":", " ", " ", "/", "p", "u", "b", " ">>,
     <<"#", " ", "A", "l", "l", "o", "w", ":", " ", "/", "x">>,
     <<>>,
     <<"S", "i", "t", "e", "m", "a", "p", ":", " ", "/", "s", ".", "x", "m", "l">>,
     <<"A", "l", "l", "o", "w", "a", "n", "c", "e", ":", " ", "x">>,
     <<"D", "i", "s", "a", "l", "l", "o", "w">>}

RECURSIVE join_lines(_)
join_lines(lines) ==
    IF lines = <<>> THEN <<>> ELSE Head(lines) \o <<"\n">> \o join_lines(Tail(lines))

RobotsBodies == {join_lines(ls) : ls \in SeqsUpTo(RobotsLines, MaxLines)}

RobotsResponses ==
    {TransportFailure, Response(404, <<>>, <<>>, NoSoup), Response(500, <<>>, <<>>, NoSoup)}
        \cup {Response(200, <<>>, b, NoSoup) : b \in RobotsBodies}

MetaContents ==
    {<<"a", ",", " ", "b", " ", ",", "c">>,
     <<"a", ",", ",", "b">>,
     <<",">>,
     <<" ", " ">>,
     <<"n", "e", "w", "s">>}

KeywordSoups ==
    {[elements |-> <<>>, meta |-> [found |-> FALSE, content |-> None]],
     [elements |-> <<>>, meta |-> [found |-> TRUE, content |-> None]],
     [elements |-> <<>>, meta |-> [found |-> TRUE, content |-> <<>>]]}
        \cup {[elements |-> <<>>, meta |-> [found |-> TRUE, content |-> c]] :
                c \in MetaContents}

Statuses == {200, 404, 500}

KeywordResponses ==
    {TransportFailure} \cup {Response(st, <<>>, <<>>, s) : st \in Statuses, s \in KeywordSoups}

S_PHP == <<"P", "H", "P">>
S_nginx == <<"n", "g", "i", "n", "x">>

HeaderSets ==
    {<<>>,
     <<<<"Server", S_nginx>>>>,
     <<<<"X-Powered-By", S_PHP>>>>,
     <<<<"Server", S_nginx>>, <<"X-Powered-By", S_PHP>>>>,
     <<<<"Content-Type", S_a>>>>}

TechResponses ==
    {TransportFailure} \cup {Response(st, h, <<>>, NoSoup) : st \in Statuses, h \in HeaderSets}

ElementTexts ==
    {<<" ", "H", "o", "m", "e", "\n">>,
     <<>>,
     <<"2", "0", "2", "4", "-", "0", "3", "-", "1", "0">>}

\* the documents: what each selector selects
PageSoups ==
    {[elements |-> e, meta |-> [found |-> FALSE, content |-> None]] :
        e \in {<<>>} \cup {<<<<"h1", x>>>> : x \in ElementTexts}
                \cup {<<<<"h1", x>>, <<"time", y>>>> : x, y \in ElementTexts}}

PageResponses ==
    {TransportFailure} \cup {Response(st, <<>>, <<>>, s) : st \in Statuses, s \in PageSoups}

\* rule sets: field name -> selector
RuleSets ==
    {<<>>,
     <<<<"title", "h1">>>>,
     <<<<"title", "h1">>, <<"date", "time">>>>,
     <<<<"date", "time">>, <<"title", "h1">>>>,
     <<<<"title", "h1">>, <<"link", "a[">>>>}

----------------------------------------------------------------------------
(* the functions called directly: the initial state holds the inputs of one
   call in args, and the call's action applies the function to them *)

driver_locals == <<scraped_data, filtered_data, keywords, robots_rules, technologies>>

\* the call of fn returns: r.ret, or the exception r.raised escapes
Returns(fn, r) ==
    /\ op' = fn
    /\ ret' = r.ret
    /\ raised' = r.raised

Pending(a, clock, file) ==
    /\ pc = "lib"
    /\ today = clock
    /\ op = "none"
    /\ args = a
    /\ ret = <<>>
    /\ raised = "none"
    /\ fs = file
    /\ requested = <<>>
    /\ scraped_data = <<>>
    /\ filtered_data = <<>>
    /\ keywords = <<>>
    /\ robots_rules = <<>>
    /\ technologies = <<>>

FetchCalls ==
    {[fn |-> "scrape_website", url |-> u, target_elements |-> t, response |-> r] :
        u \in SiteUrls, t \in RuleSets, r \in PageResponses}
    \cup {[fn |-> "extract_keywords", url |-> u, response |-> r] :
        u \in SiteUrls, r \in KeywordResponses}
    \cup {[fn |-> "check_robots_txt", url |-> u, response |-> r] :
        u \in SiteUrls, r \in RobotsResponses}
    \cup {[fn |-> "detect_web_technologies", url |-> u, response |-> r] :
        u \in SiteUrls, r \in TechResponses}

Init == \E a \in FetchCalls, clock \in Dates : Pending(a, clock, NoFile)

Call_scrape_website ==
    /\ pc = "lib" /\ op = "none" /\ args.fn = "scrape_website"
    /\ \E r \in {scrape_website(args.response, args.target_elements)} : Returns("scrape_website", r)
    /\ requested' = args.url
    /\ UNCHANGED <<pc, today, args, fs, driver_locals>>

Call_extract_keywords ==
    /\ pc = "lib" /\ op = "none" /\ args.fn = "extract_keywords"
    /\ \E r \in {extract_keywords(args.response)} : Returns("extract_keywords", r)
    /\ requested' = args.url
    /\ UNCHANGED <<pc, today, args, fs, driver_locals>>

Call_check_robots_txt ==
    /\ pc = "lib" /\ op = "none" /\ args.fn = "check_robots_txt"
    /\ \E r \in {check_robots_txt(args.response)} : Returns("check_robots_txt", r)
    /\ requested' = robots_url(args.url)
    /\ UNCHANGED <<pc, today, args, fs, driver_locals>>

Call_detect_web_technologies ==
    /\ pc = "lib" /\ op = "none" /\ args.fn = "detect_web_technologies"
    /\ \E r \in {detect_web_technologies(args.response)} : Returns("detect_web_technologies", r)
    /\ requested' = args.url
    /\ UNCHANGED <<pc, today, args, fs, driver_locals>>

Next ==
    \/ Call_scrape_website
    \/ Call_extract_keywords
    \/ Call_check_robots_txt
    \/ Call_detect_web_technologies

\* one call of one of the four fetch-based functions, with any inputs and
\* any answer of the network
Spec == Init /\ [][Next]_vars

FilterCalls ==
    {[fn |-> "filter_by_date", data |-> d, date_key |-> k, date_format |-> f,
      date_threshold |-> th] :
        d \in SeqsUpTo(FilterRecords, MaxFilterRecords), k \in DateKeys,
        f \in DateFormats, th \in Thresholds}

FilterInit == \E a \in FilterCalls, clock \in Dates : Pending(a, clock, NoFile)

Call_filter_by_date ==
    /\ pc = "lib" /\ op = "none" /\ args.fn = "filter_by_date"
    /\ \E r \in {filter_by_date(args.data, args.date_key, args.date_format,
                                 args.date_threshold, today)} :
            Returns("filter_by_date", r)
    /\ UNCHANGED <<pc, today, args, fs, requested, driver_locals>>

FilterNext == Call_filter_by_date

\* one call of filter_by_date with any inputs
SpecFilter == FilterInit /\ [][FilterNext]_vars

\* the files that may be at the path before the call
CsvFiles ==
    {NoFile,
     [exists |-> TRUE, rows |-> <<>>],
     [exists |-> TRUE, rows |-> <<<<"x">>, <<S_1>>>>]}

CsvCalls ==
    {[fn |-> "save_to_csv", data |-> d] : d \in SeqsUpTo(CsvRecords, MaxCsvRecords)}

CsvInit ==
    \E a \in CsvCalls, clock \in Dates, file \in CsvFiles : Pending(a, clock, file)

\* the call of fn, which returns None, leaves the file r.fs
Writes(fn, r) ==
    /\ op' = fn
    /\ ret' = None
    /\ raised' = r.raised
    /\ fs' = r.fs

Call_save_to_csv ==
    /\ pc = "lib" /\ op = "none" /\ args.fn = "save_to_csv"
    /\ \E r \in {save_to_csv(args.data, fs)} : Writes("save_to_csv", r)
    /\ UNCHANGED <<pc, today, args, requested, driver_locals>>

CsvNext == Call_save_to_csv

\* one call of save_to_csv with any records, whatever is at the path
SpecCsv == CsvInit /\ [][CsvNext]_vars

----------------------------------------------------------------------------
(* the __main__ driver, lines 169-207 *)

website_url ==
    <<"h", "t", "t", "p", "s", ":", "/", "/", "i", "n", "t", "e", "r", "n", "s", "h", "a", "l", "a", ".", "c", "o", "m", "/">>

S_date_format == <<"%", "Y", "-", "%", "m", "-", "%", "d">>

DateSelector == "meta[property='article:published_time'], meta[name='date'], time[datetime]"

elements_to_scrape ==
    <<<<"title", "title">>,
      <<"date", DateSelector>>,
      <<"description", "meta[name='description']">>>>

S_Internshala == <<" ", "I", "n", "t", "e", "r", "n", "s", "h", "a", "l", "a", "\n">>

\* what the date selector may select on the page
MainDateTexts ==
    {<<>>,
     <<"s", "o", "o", "n">>,
     <<"2", "0", "2", "4", "-", "0", "3", "-", "0", "9">>,
     <<"2", "0", "2", "4", "-", "0", "3", "-", "1", "0">>,
     <<" ", "2", "0", "2", "4", "-", "0", "3", "-", "1", "1", "\n">>,
     <<"2", "0", "2", "4", "-", "0", "2", "-", "3", "0">>}

MainSoups ==
    {[elements |-> e, meta |-> [found |-> FALSE, content |-> None]] :
        e \in {<<>>, <<<<"title", S_Internshala>>>>}
                \cup {<<<<"title", S_Internshala>>, <<DateSelector, x>>>> : x \in MainDateTexts}
                \cup {<<<<DateSelector, x>>, <<"meta[name='description']", <<>>>>>> :
                        x \in MainDateTexts}}

MainPageResponses ==
    {TransportFailure} \cup {Response(st, <<>>, <<>>, s) : st \in {200, 404}, s \in MainSoups}

MainKeywordResponses ==
    {TransportFailure, Response(404, <<>>, <<>>, NoSoup)}
        \cup {Response(200, <<>>, <<>>, s) : s \in KeywordSoups}

MainRobotsResponses ==
    {TransportFailure, Response(404, <<>>, <<>>, NoSoup)}
        \cup {Response(200, <<>>, join_lines(<<l>>), NoSoup) : l \in RobotsLines}

MainInit ==
    \E clock \in Dates, file \in CsvFiles :
        /\ pc = "scrape"
        /\ today = clock
        /\ op = "none"
        /\ args = <<>>
        /\ ret = <<>>
        /\ raised = "none"
        /\ fs = file
        /\ requested = <<>>
        /\ scraped_data = <<>>
        /\ filtered_data = <<>>
        /\ keywords = <<>>
        /\ robots_rules = <<>>
        /\ technologies = <<>>

\* where the driver goes after a call: an exception that escapes the call
\* ends the run
after(exc, next) == IF exc = "none" THEN next ELSE "aborted"

\* line 179
Scraped(r) ==
    /\ Returns("scrape_website", r)
    /\ scraped_data' = IF r.raised = "none" THEN <<r.ret>> ELSE scraped_data
    /\ pc' = after(r.raised, "filter")

Main_scrape ==
    /\ pc = "scrape"
    /\ \E response \in MainPageResponses :
        \E r \in {scrape_website(response, elements_to_scrape)} : Scraped(r)
    /\ requested' = website_url
    /\ UNCHANGED <<today, args, fs, filtered_data, keywords, robots_rules, technologies>>

\* line 182
Filtered(r) ==
    /\ Returns("filter_by_date", r)
    /\ filtered_data' = IF r.raised = "none" THEN r.ret ELSE filtered_data
    /\ pc' = after(r.raised, "export")

Main_filter ==
    /\ pc = "filter"
    /\ \E r \in {filter_by_date(scraped_data, "date", S_date_format, <<>>, today)} :
            Filtered(r)
    /\ UNCHANGED <<today, args, fs, requested, scraped_data, keywords, robots_rules,
                   technologies>>

\* lines 184-192
Exported(r) ==
    /\ Writes("save_to_csv", r)
    /\ pc' = after(r.raised, "keywords")

Main_export ==
    /\ pc = "export"
    /\ IF filtered_data # <<>>
       THEN \E r \in {save_to_csv(filtered_data, fs)} : Exported(r)
       ELSE /\ pc' = "keywords"
            /\ UNCHANGED <<op, ret, raised, fs>>
    /\ UNCHANGED <<today, args, requested, driver_locals>>

\* line 196
Extracted(r) ==
    /\ Returns("extract_keywords", r)
    /\ keywords' = IF r.raised = "none" THEN r.ret ELSE keywords
    /\ pc' = after(r.raised, "robots")

Main_keywords ==
    /\ pc = "keywords"
    /\ \E response \in MainKeywordResponses :
        \E r \in {extract_keywords(response)} : Extracted(r)
    /\ requested' = website_url
    /\ UNCHANGED <<today, args, fs, scraped_data, filtered_data, robots_rules, technologies>>

\* line 201
Checked(r) ==
    /\ Returns("check_robots_txt", r)
    /\ robots_rules' = IF r.raised = "none" THEN r.ret ELSE robots_rules
    /\ pc' = after(r.raised, "technologies")

Main_robots ==
    /\ pc = "robots"
    /\ \E response \in MainRobotsResponses :
        \E r \in {check_robots_txt(response)} : Checked(r)
    /\ requested' = robots_url(website_url)
    /\ UNCHANGED <<today, args, fs, scraped_data, filtered_data, keywords, technologies>>

\* line 206
Detected(r) ==
    /\ Returns("detect_web_technologies", r)
    /\ technologies' = IF r.raised = "none" THEN r.ret ELSE technologies
    /\ pc' = after(r.raised, "done")

Main_technologies ==
    /\ pc = "technologies"
    /\ \E response \in TechResponses :
        \E r \in {detect_web_technologies(response)} : Detected(r)
    /\ requested' = website_url
    /\ UNCHANGED <<today, args, fs, scraped_data, filtered_data, keywords, robots_rules>>

MainNext ==
    \/ Main_scrape
    \/ Main_filter
    \/ Main_export
    \/ Main_keywords
    \/ Main_robots
    \/ Main_technologies

\* The driver is one thread running its statements one after another: a
\* statement that can run does run, which is weak fairness of the step.
SpecMain == MainInit /\ [][MainNext]_vars /\ WF_vars(MainNext)

----------------------------------------------------------------------------
(* the properties checked *)

\* the response is one the fetch of scrape_website and extract_keywords
\* accepts: it arrived, and its status is no 4xx or 5xx
Fetched(response) ==
    response.exc = "none" /\ response.status_code \notin 400..599

\* the i-th smallest element of a set of integers
Nth(P, i) == CHOOSE x \in P : Cardinality({y \in P : y < x}) = i - 1

(* ---- C1 ---- *)

\* the record's date field is present, non-empty, parses against the format
\* and is on or after the threshold
DateQualifies(item, date_key, date_format, threshold) ==
    /\ \E i \in 1..Len(item) : item[i][1] = date_key
    /\ LET v == item[CHOOSE i \in 1..Len(item) : item[i][1] = date_key][2] IN
        /\ v # None
        /\ v # <<>>
        /\ strptime(v, date_format).exc = "none"
        /\ ~date_gt(threshold, strptime(v, date_format).date)

FilterIsExact ==
    LET threshold == IF args.date_threshold = <<>> THEN today ELSE args.date_threshold
    IN /\ raised = "none"
       /\ ret = SelectSeq(args.data,
                          LAMBDA item : DateQualifies(item, args.date_key,
                                                      args.date_format, threshold))

\* C1: for every sequence of records, date field name, format and threshold,
\* filter_by_date returns the subsequence of its input, in order, of exactly
\* the records whose date field is present, non-empty, parses against the
\* format and is on or after the threshold.
C1_FilterKeepsExactlyQualifying ==
    op = "filter_by_date" => FilterIsExact

\* the format names no directive twice
NoRepeatedDirective(format) ==
    \A i, j \in 1..Len(format) :
        (i < j /\ i < Len(format) /\ j < Len(format) /\ format[i] = "%" /\ format[j] = "%"
            /\ (i = 1 \/ format[i - 1] # "%"))
        => format[i + 1] # format[j + 1]

\* C1, restricted to the formats whose pattern compiles: the statement holds
\* then, so the repeated directive is the one case that breaks it.
C1_HoldsForCompilingFormats ==
    (op = "filter_by_date" /\ NoRepeatedDirective(args.date_format)) => FilterIsExact

(* ---- C2 ---- *)

\* C2, as stated: every record scrape_website returns has exactly the keys
\* of the rule set.
C2_KeysEqualRuleKeys ==
    op = "scrape_website" => KeySet(ret) = KeySet(args.target_elements)

AllSelectorsValid(target_elements) ==
    \A i \in 1..Len(target_elements) : target_elements[i][2] \notin InvalidSelectors

\* C2, amended: when the page is fetched (no transport failure, no 4xx/5xx
\* status) and select_one accepts every selector, the record has exactly the
\* keys of the rule set, in its order, None being the value of each field
\* whose selector selects nothing; in every other case the record is empty.
C2_KeysEqualRuleKeysWhenFetched ==
    op = "scrape_website" =>
        IF Fetched(args.response) /\ AllSelectorsValid(args.target_elements)
        THEN /\ Len(ret) = Len(args.target_elements)
             /\ \A i \in 1..Len(ret) :
                  /\ ret[i][1] = args.target_elements[i][1]
                  /\ (\A e \in 1..Len(args.response.soup.elements) :
                        args.response.soup.elements[e][1] # args.target_elements[i][2])
                     => ret[i][2] = None
        ELSE ret = <<>>

\* a fetched page on which one selector of two selects nothing
C2_Witness ==
    /\ op = "scrape_website"
    /\ Fetched(args.response)
    /\ Len(ret) = 2
    /\ ret[1][2] # None
    /\ ret[2][2] = None

(* ---- C3 ---- *)

RecognizedDirectives == {S_User_agent, S_Disallow, S_Allow}

\* C3: the policy check_robots_txt returns has no key other than
\* "User-agent", "Disallow" and "Allow".
C3_OnlyRecognizedKeys ==
    op = "check_robots_txt" => KeySet(ret) \subseteq RecognizedDirectives

(* ---- C4 ---- *)

\* the stripped lines of the body that begin with a recognized directive
RuleLines(text) ==
    SelectSeq([i \in 1..Len(splitlines(text)) |-> strip(splitlines(text)[i])],
              LAMBDA l : \E d \in RecognizedDirectives :
                            Len(l) >= Len(d) /\ SubSeq(l, 1, Len(d)) = d)

\* what a line puts before and after its first colon, trimmed
DirectiveOf(l) == strip(partition(l, ":")[1])
ValueOf(l) == strip(partition(l, ":")[3])

\* the values of the lines naming directive k, in the order of the lines
ValuesFor(lines, k) ==
    LET mine == SelectSeq(lines, LAMBDA l : DirectiveOf(l) = k) IN
    [i \in 1..Len(mine) |-> ValueOf(mine[i])]

\* C4: on a 200 response every directive that occurs is mapped to all the
\* trimmed values of its lines, in the order of the file, none overwritten
\* or lost; a line that begins with no recognized directive contributes no
\* key and no value; a body of comments and blank lines gives the empty
\* policy.
C4_ValuesAccumulateInOrder ==
    (op = "check_robots_txt" /\ args.response.exc = "none"
        /\ args.response.status_code = 200) =>
        LET lines == RuleLines(args.response.text) IN
        /\ \A k \in KeySet(ret) \cup RecognizedDirectives :
              /\ get(ret, k, <<>>) = ValuesFor(lines, k)
              /\ (k \in KeySet(ret)) <=> (ValuesFor(lines, k) # <<>>)
        /\ lines = <<>> => ret = <<>>

\* a directive that occurs twice keeps both values, in order
C4_Witness ==
    /\ op = "check_robots_txt"
    /\ args.response.status_code = 200
    /\ Len(get(ret, S_Disallow, <<>>)) = 2
    /\ get(ret, S_Disallow, <<>>)[1] # get(ret, S_Disallow, <<>>)[2]

(* ---- C5 ---- *)

\* segment i of content, the commas being at the positions P
Segment(content, P, i) ==
    SubSeq(content,
           (IF i = 1 THEN 0 ELSE Nth(P, i - 1)) + 1,
           (IF i = Cardinality(P) + 1 THEN Len(content) + 1 ELSE Nth(P, i)) - 1)

\* C5: when the page is fetched and its keywords meta tag has non-empty
\* content, extract_keywords returns the segments between the commas, each
\* trimmed, in order, one element per segment (an empty segment is an empty
\* string); without the tag, or with no or empty content, it returns [].
C5_KeywordsAreTrimmedSegments ==
    (op = "extract_keywords" /\ Fetched(args.response)) =>
        LET meta == args.response.soup.meta
            P == {x \in 1..Len(meta.content) : meta.content[x] = ","}
        IN IF meta.found /\ meta.content # None /\ meta.content # <<>>
           THEN /\ Len(ret) = Cardinality(P) + 1
                /\ \A i \in 1..Len(ret) : ret[i] = strip(Segment(meta.content, P, i))
           ELSE ret = <<>>

\* an empty segment between two keywords is kept as an empty string
C5_Witness ==
    /\ op = "extract_keywords"
    /\ Len(ret) = 3
    /\ ret[1] # <<>>
    /\ ret[2] = <<>>
    /\ ret[3] # <<>>

(* ---- C6 ---- *)

\* C6: for every non-empty sequence of records save_to_csv completes without
\* raising and leaves the header, the keys of the first record, then one row
\* per record in order, in the header's column order, a field a record lacks
\* being an empty cell.
C6_OneRowPerRecord ==
    (op = "save_to_csv" /\ args.data # <<>>) =>
        /\ raised = "none"
        /\ fs.exists
        /\ Len(fs.rows) = Len(args.data) + 1
        /\ fs.rows[1] = [j \in 1..Len(args.data[1]) |-> args.data[1][j][1]]
        /\ \A i \in 1..Len(args.data) : \A j \in 1..Len(args.data[1]) :
              LET k == args.data[1][j][1]
                  at == {x \in 1..Len(args.data[i]) : args.data[i][x][1] = k}
              IN fs.rows[i + 1][j] =
                    IF at = {} THEN <<>>
                    ELSE IF args.data[i][CHOOSE x \in at : TRUE][2] = None THEN <<>>
                    ELSE args.data[i][CHOOSE x \in at : TRUE][2]

(* ---- C7 ---- *)

FetchFunctions ==
    {"scrape_website", "extract_keywords", "check_robots_txt", "detect_web_technologies"}

\* the fetch failed, or the server answered with an unsuccessful status
FetchFailed(response) ==
    response.exc # "none" \/ response.status_code \in 400..599

\* C7: each of the four fetch-based functions returns its empty result, and
\* raises nothing, on a transport failure and on an unsuccessful status.
C7_FailureGivesEmptyResult ==
    (op \in FetchFunctions /\ FetchFailed(args.response)) =>
        (ret = <<>> /\ raised = "none")

\* C7 for the three functions that look at the status
C7_HoldsForStatusCheckingFunctions ==
    (op \in FetchFunctions \ {"detect_web_technologies"} /\ FetchFailed(args.response)) =>
        (ret = <<>> /\ raised = "none")

(* ---- C8 ---- *)

\* C8: save_to_csv called with no records opens and writes no file, whatever
\* is at the path stays as it is, and it returns without raising.
C8_EmptyDataLeavesFile ==
    [][(op' = "save_to_csv" /\ args.data = <<>>) => (fs' = fs /\ raised' = "none")]_vars

\* called with no records on a path that holds a file with rows
C8_Witness ==
    /\ op = "save_to_csv"
    /\ args.data = <<>>
    /\ fs.exists
    /\ Len(fs.rows) = 2

(* ---- C9 ---- *)

\* C9, as stated: the robots.txt location is the site root without its last
\* trailing slash, if it has one, followed by "/robots.txt".
C9_OneTrailingSlashRemoved ==
    op = "check_robots_txt" =>
        requested =
            (IF args.url # <<>> /\ args.url[Len(args.url)] = "/"
             THEN SubSeq(args.url, 1, Len(args.url) - 1)
             ELSE args.url) \o S_robots_txt

\* C9, amended: the robots.txt location is the site root without any of its
\* trailing slashes, followed by "/robots.txt".
C9_AllTrailingSlashesRemoved ==
    op = "check_robots_txt" =>
        \E n \in 0..Len(args.url) :
            /\ n = 0 \/ args.url[n] # "/"
            /\ \A j \in (n + 1)..Len(args.url) : args.url[j] = "/"
            /\ requested = SubSeq(args.url, 1, n) \o S_robots_txt

\* a site root that ends in two slashes
C9_Witness ==
    /\ op = "check_robots_txt"
    /\ Len(args.url) >= 2
    /\ args.url[Len(args.url)] = "/"
    /\ args.url[Len(args.url) - 1] = "/"
    /\ Len(requested) = Len(args.url) - 2 + Len(S_robots_txt)

(* ---- C10 ---- *)

\* the stages in the order the driver runs them
StageOrder ==
    <<"scrape", "filter", "export", "keywords", "robots", "technologies", "done">>

\* C10: the driver runs its stages strictly in order, no fetch outcome and no
\* record content aborts it, every run reaches the technology detection and
\* ends, and the file is written only by the export stage and only when a
\* record survived the date filter.
C10_PipelineAlwaysCompletes ==
    /\ [][\E i \in 1..6 : pc = StageOrder[i] /\ pc' = StageOrder[i + 1]]_vars
    /\ [](pc # "aborted")
    /\ [][fs' # fs => (pc = "export" /\ filtered_data # <<>>)]_vars
    /\ <>(op = "detect_web_technologies" /\ pc = "done")

\* the page fetch failed: the run ends with no record kept and no file
\* written
C10_Witness ==
    /\ pc = "done"
    /\ scraped_data = <<<<>>>>
    /\ filtered_data = <<>>
    /\ ~fs.exists
    /\ op = "detect_web_technologies"

====
